---- MODULE Spec2Model ----
(***************************************************************************)
(* Model of the delete-confirmation dialog: the XState machine             *)
(* deleteDialogMachine (machines/deleteDialogMachine.ts), composed with    *)
(* the deleteItem promise actor that useDeleteTaskDialog provides.         *)
(*                                                                         *)
(* One step of the model is one macrostep of the machine: an event is      *)
(* taken from the outside (OPEN, CLOSE, CONFIRM, RETRY) or from the        *)
(* invoked promise (done, error), the transition enabled in the current    *)
(* state node is selected, its actions are applied to the context, and     *)
(* the invocation of the entered state is started.  An event for which     *)
(* the current state node has no transition is dropped.                    *)
(***************************************************************************)
EXTENDS Integers, Sequences, FiniteSets, TLC

VARIABLES
    value,          \* snapshot.value: the active leaf state
    context,        \* snapshot.context: [itemId, itemTitle, error]
    children,       \* snapshot.children: the invoked actors that are running
    deleteFnCalls,  \* arguments of the calls made to the delete function
    lastEvent,      \* the event processed by the last macrostep
    prev,           \* the snapshot the last macrostep started from
    session         \* the OPEN event of the current dialog session, the
                    \* delete calls / failures counted since it, and the
                    \* state the previous session was closed from

dialogVars ==
    <<value, context, children, deleteFnCalls, lastEvent, prev, session>>

\* Dev password sign-in (convex/auth.ts, pages/Auth.tsx)
VARIABLES
    backendEnv,     \* process.env of the Convex deployment
    viteEnv,        \* import.meta.env of the frontend build
    form,           \* the useState cells of SignInForm and its pending call
    authAccounts,   \* the authAccounts table of the auth library
    signInResult    \* the last signIn call to the backend and its outcome

authVars == <<backendEnv, viteEnv, form, authAccounts, signInResult>>

\* AuthGuard (components/layout/AuthGuard.tsx)
VARIABLES
    convexAuth,     \* what useConvexAuth returns: isLoading, isAuthenticated
    location,       \* useLocation().pathname
    guard,          \* the mounted AuthGuard: prevState ref and last render
    breadcrumbs     \* the Sentry breadcrumbs, newest last

guardVars == <<convexAuth, location, guard, breadcrumbs>>

\* Tasks (convex/tasks.ts, convex/lib/auth.ts)
VARIABLES
    tasks,          \* the tasks table: a set of documents
    lastCall,       \* the last call of list/create/toggle/remove, its
                    \* outcome and the table it ran on
    createdBy,      \* every task id ever inserted, with the user who did
    removedIds,     \* the ids of the tasks that were deleted
    twice           \* the current run of toggles of one task and the table
                    \* the run started from

taskVars == <<tasks, lastCall, createdBy, removedIds, twice>>

\* The email code steps of SignInForm (pages/Auth.tsx)
VARIABLES
    otpInputs,      \* what is typed in the email and code inputs
    otpLast         \* the last step of the email code flow, how the awaited
                    \* signIn ended, and the form state the step started from

otpVars == <<otpInputs, otpLast>>

vars == <<dialogVars, authVars, guardVars, taskVars, otpVars>>

\* what a step of each component leaves alone
outsideDialog == <<authVars, guardVars, taskVars, otpVars>>

outsideAuth == <<dialogVars, guardVars, taskVars, otpVars>>

outsideGuard == <<dialogVars, authVars, taskVars, otpVars>>

outsideTasks == <<dialogVars, authVars, guardVars, otpVars>>

outsideOtp ==
    <<dialogVars, guardVars, taskVars, backendEnv, viteEnv, authAccounts,
      signInResult>>

----------------------------------------------------------------------------
(* Bounds and input domains *)

MaxCalls == 3

Null == "null"

ItemIds == {"task123", "specific-task-456"}

ItemTitles == {"Test Task", "Specific Task"}

Messages == {"Network error", "Task not found"}

\* what a rejected promise can carry: an Error, a string, anything else
Rejections ==
    {[kind |-> "Error", payload |-> m] : m \in Messages}
        \cup {[kind |-> "string", payload |-> m] : m \in Messages}
        \cup {[kind |-> "other", payload |-> Null]}

----------------------------------------------------------------------------
(* Strings: a string the code converts is a sequence of characters *)

UpperCase ==
    <<"A", "B", "C", "D", "E", "F", "G", "H", "I", "J", "K", "L", "M",
      "N", "O", "P", "Q", "R", "S", "T", "U", "V", "W", "X", "Y", "Z">>

LowerCase ==
    <<"a", "b", "c", "d", "e", "f", "g", "h", "i", "j", "k", "l", "m",
      "n", "o", "p", "q", "r", "s", "t", "u", "v", "w", "x", "y", "z">>

WhiteSpace == {" ", "\t", "\n"}

UpperToLower ==
    [u \in {UpperCase[i] : i \in 1..Len(UpperCase)} |->
        LowerCase[CHOOSE i \in 1..Len(UpperCase) : UpperCase[i] = u]]

toLowerCaseChar(c) ==
    IF c \in DOMAIN UpperToLower THEN UpperToLower[c] ELSE c

\* String.prototype.toLowerCase
toLowerCase(str) == [i \in 1..Len(str) |-> toLowerCaseChar(str[i])]

RECURSIVE trimStart(_)
trimStart(str) ==
    IF str # <<>> /\ Head(str) \in WhiteSpace THEN trimStart(Tail(str))
    ELSE str

RECURSIVE trimEnd(_)
trimEnd(str) ==
    IF str # <<>> /\ str[Len(str)] \in WhiteSpace
    THEN trimEnd(SubSeq(str, 1, Len(str) - 1))
    ELSE str

\* String.prototype.trim
trim(str) == trimEnd(trimStart(str))

----------------------------------------------------------------------------
(* Dev password sign-in: configuration *)

\* an environment variable is unset, or set to a string
Unset(empty) == [defined |-> FALSE, v |-> empty]

SetTo(str) == [defined |-> TRUE, v |-> str]

FrontendDefaultEmail == <<"t", "e", "s", "t", "@", "e", "x", "a", "m", "p", "l", "e", ".", "l", "o", "c", "a", "l">>

BackendDefaultEmail == <<"t", "e", "s", "t", "@", "y", "o", "u", "r", "a", "p", "p", ".", "l", "o", "c", "a", "l">>

DefaultPassword == "TestUser2026#Secure!"

OverrideEmail == <<"D", "e", "v", "@", "x", ".", "i", "o">>

OverridePassword == "hunter2"

\* the deployments the model starts from
BackendEnvs ==
    [ENABLE_DEV_PASSWORD_AUTH : {Unset(""), SetTo("true")},
     DEV_PASSWORD_AUTH_EMAIL : {Unset(<<>>), SetTo(OverrideEmail)},
     DEV_PASSWORD_AUTH_PASSWORD : {Unset(""), SetTo(OverridePassword)}]
    \cup
    [ENABLE_DEV_PASSWORD_AUTH : {SetTo("TRUE")},
     DEV_PASSWORD_AUTH_EMAIL : {Unset(<<>>)},
     DEV_PASSWORD_AUTH_PASSWORD : {Unset("")}]

ViteEnvs ==
    { [VITE_ENABLE_DEV_PASSWORD_AUTH |-> Unset(""),
       VITE_DEV_PASSWORD_AUTH_EMAIL |-> Unset(<<>>),
       VITE_DEV_PASSWORD_AUTH_PASSWORD |-> Unset("")],
      [VITE_ENABLE_DEV_PASSWORD_AUTH |-> SetTo("true"),
       VITE_DEV_PASSWORD_AUTH_EMAIL |-> Unset(<<>>),
       VITE_DEV_PASSWORD_AUTH_PASSWORD |-> Unset("")],
      [VITE_ENABLE_DEV_PASSWORD_AUTH |-> SetTo("true"),
       VITE_DEV_PASSWORD_AUTH_EMAIL |-> SetTo(OverrideEmail),
       VITE_DEV_PASSWORD_AUTH_PASSWORD |-> SetTo(OverridePassword)] }

\* backend: convex/auth.ts
enableDevPasswordAuth(env) ==
    /\ env.ENABLE_DEV_PASSWORD_AUTH.defined
    /\ env.ENABLE_DEV_PASSWORD_AUTH.v = "true"

devPasswordEmail(env) ==
    IF env.DEV_PASSWORD_AUTH_EMAIL.defined
    THEN toLowerCase(env.DEV_PASSWORD_AUTH_EMAIL.v)
    ELSE BackendDefaultEmail

devPasswordSecret(env) ==
    IF env.DEV_PASSWORD_AUTH_PASSWORD.defined
    THEN env.DEV_PASSWORD_AUTH_PASSWORD.v
    ELSE DefaultPassword

devProviderId == "dev-password"

providers(env) ==
    IF enableDevPasswordAuth(env) THEN {"resend-otp", devProviderId}
    ELSE {"resend-otp"}

\* frontend: SignInForm
devPasswordEnabled(env) ==
    /\ env.VITE_ENABLE_DEV_PASSWORD_AUTH.defined
    /\ env.VITE_ENABLE_DEV_PASSWORD_AUTH.v = "true"

devEmailDefault(env) ==
    IF env.VITE_DEV_PASSWORD_AUTH_EMAIL.defined
       /\ env.VITE_DEV_PASSWORD_AUTH_EMAIL.v # <<>>
    THEN env.VITE_DEV_PASSWORD_AUTH_EMAIL.v
    ELSE FrontendDefaultEmail

devPasswordDefault(env) ==
    IF env.VITE_DEV_PASSWORD_AUTH_PASSWORD.defined
       /\ env.VITE_DEV_PASSWORD_AUTH_PASSWORD.v # ""
    THEN env.VITE_DEV_PASSWORD_AUTH_PASSWORD.v
    ELSE DefaultPassword

----------------------------------------------------------------------------
(* Dev password sign-in: the backend provider *)

\* a credentials field is a string or something else (undefined, a number)
Str(v) == [kind |-> "string", v |-> v]

NotAString(empty) == [kind |-> "undefined", v |-> empty]

PaddedEmail == <<" ", "T", "e", "s", "t", "@", "Y", "o", "u", "r", "A", "p", "p", ".", "L", "o", "c", "a", "l", " ">>

PaddedOverride == <<" ", "D", "E", "V", "@", "x", ".", "i", "o">>

EmailInputs == {FrontendDefaultEmail, PaddedEmail, PaddedOverride, <<>>}

PasswordInputs == {DefaultPassword, OverridePassword, ""}

Credentials ==
    [email : {Str(e) : e \in EmailInputs} \cup {NotAString(<<>>)},
     password : {Str(pw) : pw \in PasswordInputs} \cup {NotAString("")}]

FindAccount(accounts, provider, id) ==
    {a \in accounts : a.provider = provider /\ a.id = id}

\* createAccount of the auth library: a new account and user, or, for an
\* account that exists, the existing one or an exception
createAccount(accounts, provider, id, secret, throwsOnExisting) ==
    LET existing == FindAccount(accounts, provider, id)
        uid == Cardinality(accounts) + 1
    IN  IF existing # {}
        THEN [ok |-> ~throwsOnExisting,
              userId |-> (CHOOSE a \in existing : TRUE).userId,
              accounts |-> accounts]
        ELSE [ok |-> TRUE, userId |-> uid,
              accounts |-> accounts \cup
                {[provider |-> provider, id |-> id, secret |-> secret,
                  userId |-> uid]}]

\* retrieveAccount of the auth library
retrieveAccount(accounts, provider, id, secret) ==
    LET existing == {a \in FindAccount(accounts, provider, id) :
                        a.secret = secret}
    IN  IF existing # {}
        THEN [ok |-> TRUE, userId |-> (CHOOSE a \in existing : TRUE).userId]
        ELSE [ok |-> FALSE, userId |-> 0]

Returns(kind, message, userId, accounts) ==
    [kind |-> kind, message |-> message, userId |-> userId,
     accounts |-> accounts]

authorize_NoTrim(env, credentials, accounts, throwsOnExisting) ==
    LET rawEmail == credentials.email
        rawPassword == credentials.password
    IN  IF rawEmail.kind # "string" \/ rawPassword.kind # "string"
        THEN Returns("null", "", 0, accounts)
        ELSE
          LET email == toLowerCase(rawEmail.v)
          IN  IF email # devPasswordEmail(env)
                 \/ rawPassword.v # devPasswordSecret(env)
              THEN Returns("throw", "Invalid credentials", 0, accounts)
              ELSE
                LET created == createAccount(accounts, devProviderId, email,
                                             rawPassword.v, throwsOnExisting)
                    retrieved == retrieveAccount(accounts, devProviderId,
                                                 email, rawPassword.v)
                IN  IF created.ok
                    THEN Returns("user", "", created.userId, created.accounts)
                    ELSE IF retrieved.ok
                    THEN Returns("user", "", retrieved.userId, accounts)
                    ELSE Returns("throw", "InvalidSecret", 0, accounts)

\* the authorize callback of the dev-password provider
authorize(env, credentials, accounts, throwsOnExisting) ==
    LET rawEmail == credentials.email
        rawPassword == credentials.password
    IN  IF rawEmail.kind # "string" \/ rawPassword.kind # "string"
        THEN Returns("null", "", 0, accounts)
        ELSE
          LET email == trim(toLowerCase(rawEmail.v))
          IN  IF email # devPasswordEmail(env)
                 \/ rawPassword.v # devPasswordSecret(env)
              THEN Returns("throw", "Invalid credentials", 0, accounts)
              ELSE
                LET created == createAccount(accounts, devProviderId, email,
                                             rawPassword.v, throwsOnExisting)
                    retrieved == retrieveAccount(accounts, devProviderId,
                                                 email, rawPassword.v)
                IN  IF created.ok
                    THEN Returns("user", "", created.userId, created.accounts)
                    ELSE IF retrieved.ok
                    THEN Returns("user", "", retrieved.userId, accounts)
                    ELSE Returns("throw", "InvalidSecret", 0, accounts)

\* signIn of the backend for a credentials provider
signIn(env, provider, credentials, accounts, throwsOnExisting) ==
    IF provider \notin providers(env)
    THEN Returns("throw", "Provider not configured", 0, accounts)
    ELSE authorize(env, credentials, accounts, throwsOnExisting)

----------------------------------------------------------------------------
(* Events *)

InitEvent == [type |-> "xstate.init"]

OpenEvent(id, title) == [type |-> "OPEN", itemId |-> id, itemTitle |-> title]

CloseEvent == [type |-> "CLOSE"]

ConfirmEvent == [type |-> "CONFIRM"]

RetryEvent == [type |-> "RETRY"]

DoneEvent == [type |-> "xstate.done.actor.deleteItem"]

ErrorEvent(r) == [type |-> "xstate.error.actor.deleteItem", error |-> r]

----------------------------------------------------------------------------
(* The machine configuration *)

LeafStates == {"closed", "open.idle", "open.deleting", "open.error"}

initial_Idle == "open.idle"

initial == "closed"

initialContext == [itemId |-> Null, itemTitle |-> Null, error |-> Null]

\* a declared transition: source state node, event type, target, actions
Tr(from, on, target, actions) ==
    [from |-> from, on |-> on, target |-> target, actions |-> actions]

closedOn_CloseOpens ==
    { Tr("closed", "OPEN", "open.idle", "setItemToDelete"),
      Tr("closed", "CLOSE", "open.idle", "none") }

\* states.closed.on
closedOn ==
    { Tr("closed", "OPEN", "open.idle", "setItemToDelete") }

\* states.open.states.idle.on
idleOn ==
    { Tr("open.idle", "CLOSE", "closed", "clearItem"),
      Tr("open.idle", "CONFIRM", "open.deleting", "none") }

deletingInvoke_Closable ==
    { Tr("open.deleting", "xstate.done.actor.deleteItem", "closed", "clearItem"),
      Tr("open.deleting", "xstate.error.actor.deleteItem", "open.error", "setError"),
      Tr("open.deleting", "CLOSE", "closed", "clearItem") }

deletingInvoke_DoneKeepsItem ==
    { Tr("open.deleting", "xstate.done.actor.deleteItem", "closed", "none"),
      Tr("open.deleting", "xstate.error.actor.deleteItem", "open.error", "setError") }

\* states.open.states.deleting.invoke: onDone and onError
deletingInvoke ==
    { Tr("open.deleting", "xstate.done.actor.deleteItem", "closed", "clearItem"),
      Tr("open.deleting", "xstate.error.actor.deleteItem", "open.error", "setError") }

errorOn_RetryToIdle ==
    { Tr("open.error", "RETRY", "open.idle", "none"),
      Tr("open.error", "CLOSE", "closed", "clearItem") }

errorOn_ConfirmRetries ==
    { Tr("open.error", "RETRY", "open.deleting", "none"),
      Tr("open.error", "CONFIRM", "open.deleting", "none"),
      Tr("open.error", "CLOSE", "closed", "clearItem") }

\* states.open.states.error.on
errorOn ==
    { Tr("open.error", "RETRY", "open.deleting", "none"),
      Tr("open.error", "CLOSE", "closed", "clearItem") }

\* every transition the machine declares
Transitions == closedOn \cup idleOn \cup deletingInvoke \cup errorOn

\* the states that invoke the deleteItem actor on entry
InvokingStates_WholeOpen == {"open.idle", "open.deleting", "open.error"}

InvokingStates == {"open.deleting"}

Enabled(v, type) == {t \in Transitions : t.from = v /\ t.on = type}

----------------------------------------------------------------------------
(* The actions of the machine *)

setItemToDelete_TitleFromId(ctx, event) ==
    [itemId    |-> IF event.type = "OPEN" THEN event.itemId ELSE Null,
     itemTitle |-> IF event.type = "OPEN" THEN event.itemId ELSE Null,
     error     |-> Null]

setItemToDelete(ctx, event) ==
    [itemId    |-> IF event.type = "OPEN" THEN event.itemId ELSE Null,
     itemTitle |-> IF event.type = "OPEN" THEN event.itemTitle ELSE Null,
     error     |-> Null]

clearItem_KeepsError(ctx, event) ==
    [itemId |-> Null, itemTitle |-> Null, error |-> ctx.error]

clearItem(ctx, event) ==
    [itemId |-> Null, itemTitle |-> Null, error |-> Null]

setError_DropsItem(ctx, event) ==
    [itemId |-> Null, itemTitle |-> Null,
     error |->
        IF event.error.kind = "Error" THEN event.error.payload
        ELSE IF event.error.kind = "string" THEN event.error.payload
        ELSE "An unknown error occurred"]

setError_NoStringCase(ctx, event) ==
    [ctx EXCEPT !.error =
        IF event.error.kind = "Error" THEN event.error.payload
        ELSE "An unknown error occurred"]

setError(ctx, event) ==
    [ctx EXCEPT !.error =
        IF event.error.kind = "Error" THEN event.error.payload
        ELSE IF event.error.kind = "string" THEN event.error.payload
        ELSE "An unknown error occurred"]

Apply(action, ctx, event) ==
    CASE action = "setItemToDelete" -> setItemToDelete(ctx, event)
      [] action = "clearItem" -> clearItem(ctx, event)
      [] action = "setError" -> setError(ctx, event)
      [] OTHER -> ctx

\* input of the invoked actor, computed from the context on entry
InvokeInput_Title(ctx) == [itemId |-> ctx.itemTitle]

InvokeInput(ctx) == [itemId |-> ctx.itemId]

----------------------------------------------------------------------------
(* SignInForm state *)

NoPending == [kind |-> "none", params |-> <<>>]

\* a signIn call the form is awaiting
Pending(kind, params) == [kind |-> kind, params |-> params]

\* the useState initial values of SignInForm
InitialForm(env) ==
    [step |-> [name |-> "email", email |-> ""],
     error |-> "",
     isSubmitting |-> FALSE,
     devEmail |-> devEmailDefault(env),
     devPassword |-> devPasswordDefault(env),
     devError |-> "",
     isDevSubmitting |-> FALSE,
     pending |-> NoPending]

\* an account created earlier through the email code provider
InitialAccounts ==
    {[provider |-> "resend-otp", id |-> FrontendDefaultEmail, secret |-> "",
      userId |-> 1]}

NoSignIn ==
    [via |-> "none",
     credentials |-> [email |-> NotAString(<<>>), password |-> NotAString("")],
     kind |-> "none", message |-> "", userId |-> 0,
     accountsBefore |-> InitialAccounts]

NoEnv ==
    [ENABLE_DEV_PASSWORD_AUTH |-> Unset(""),
     DEV_PASSWORD_AUTH_EMAIL |-> Unset(<<>>),
     DEV_PASSWORD_AUTH_PASSWORD |-> Unset("")]

NoViteEnv ==
    [VITE_ENABLE_DEV_PASSWORD_AUTH |-> Unset(""),
     VITE_DEV_PASSWORD_AUTH_EMAIL |-> Unset(<<>>),
     VITE_DEV_PASSWORD_AUTH_PASSWORD |-> Unset("")]

\* the sign-in page is not in use
AuthParked ==
    /\ backendEnv = NoEnv
    /\ viteEnv = NoViteEnv
    /\ form = InitialForm(NoViteEnv)
    /\ authAccounts = InitialAccounts
    /\ signInResult = NoSignIn

----------------------------------------------------------------------------
(* AuthGuard *)

MaxBreadcrumbs == 3

ProtectedPaths == {"/", "/dashboard"}

AuthGuardRender_LoadingFirst(loading, isAuthenticated) ==
    IF loading THEN "spinner"
    ELSE IF isAuthenticated THEN "children"
    ELSE "navigate"

\* what AuthGuard returns: its children, the spinner, or <Navigate to="/auth">
AuthGuardRender(loading, isAuthenticated) ==
    IF isAuthenticated THEN "children"
    ELSE IF loading THEN "spinner"
    ELSE "navigate"

\* breadcrumbs added while rendering
RenderBreadcrumbs(out) ==
    IF out = "navigate" THEN <<"AuthGuard redirect to /auth">> ELSE <<>>

NoPrevState == [set |-> FALSE, loading |-> FALSE, isAuthenticated |-> FALSE]

\* breadcrumbs added by the useEffect that logs state transitions
EffectBreadcrumbs(ref, loading, isAuthenticated) ==
    IF ref.set /\ (ref.loading # loading
                   \/ ref.isAuthenticated # isAuthenticated)
    THEN <<"AuthGuard state transition">> \o
         (IF ref.isAuthenticated /\ ~isAuthenticated /\ ~loading
          THEN <<"User became unauthenticated - redirecting to /auth">>
          ELSE <<>>)
    ELSE <<>>

\* the breadcrumb buffer keeps the newest MaxBreadcrumbs entries
Logged(new) ==
    LET all == breadcrumbs \o new
    IN  IF Len(all) > MaxBreadcrumbs
        THEN SubSeq(all, Len(all) - MaxBreadcrumbs + 1, Len(all))
        ELSE all

NotMounted ==
    [mounted |-> FALSE, prevState |-> NoPrevState,
     rendered |-> [output |-> "none", loading |-> FALSE,
                   isAuthenticated |-> FALSE]]

\* no protected route is in use
GuardParked ==
    /\ convexAuth = [isLoading |-> TRUE, isAuthenticated |-> FALSE]
    /\ location = "/auth"
    /\ guard = NotMounted
    /\ breadcrumbs = <<>>

----------------------------------------------------------------------------
(* Tasks: convex/lib/auth.ts and convex/tasks.ts *)

MaxTasks == 2

\* String.prototype.indexOf for one character, counted from 0
indexOf(str, ch) ==
    IF \E i \in 1..Len(str) : str[i] = ch
    THEN (CHOOSE i \in 1..Len(str) :
            str[i] = ch /\ \A j \in 1..(i - 1) : str[j] # ch) - 1
    ELSE -1

\* String.prototype.substring(0, end)
substring0(str, end) == SubSeq(str, 1, end)

extractUserId(subject) ==
    LET pipeIndex == indexOf(subject, "|")
    IN  IF pipeIndex # -1 THEN substring0(subject, pipeIndex) ELSE subject

\* ctx.auth.getUserIdentity(): null, or the identity of a signed-in session;
\* user is the user the session belongs to
Anonymous == [present |-> FALSE, subject |-> <<>>, user |-> <<>>]

Identities ==
    { Anonymous,
      [present |-> TRUE, subject |-> <<"a", "|", "1">>, user |-> <<"a">>],
      [present |-> TRUE, subject |-> <<"a", "|", "2">>, user |-> <<"a">>],
      [present |-> TRUE, subject |-> <<"b">>, user |-> <<"b">>] }

getAuthUserId(identity) ==
    IF ~identity.present
    THEN [ok |-> FALSE, userId |-> <<>>,
          message |-> "Unauthorized: You must be logged in to perform this action"]
    ELSE [ok |-> TRUE, userId |-> extractUserId(identity.subject),
          message |-> ""]

CreateArgs ==
    { [title |-> "Test Task", description |-> Unset("")],
      [title |-> "Specific Task", description |-> SetTo("notes")] }

\* what a handler did: it returned value, or threw message; the table after
Outcome(ok, message, returned, table) ==
    [ok |-> ok, message |-> message, value |-> returned, tasks |-> table]

\* ctx.db.get
Get(table, id) == {t \in table : t._id = id}

list_All(identity, table) ==
    LET auth == getAuthUserId(identity)
    IN  IF ~auth.ok THEN Outcome(FALSE, auth.message, {}, table)
        ELSE Outcome(TRUE, "", table, table)

list(identity, table) ==
    LET auth == getAuthUserId(identity)
    IN  IF ~auth.ok THEN Outcome(FALSE, auth.message, {}, table)
        ELSE Outcome(TRUE, "", {t \in table : t.userId = auth.userId}, table)

create(identity, args, table, taskId, now) ==
    LET auth == getAuthUserId(identity)
    IN  IF ~auth.ok THEN Outcome(FALSE, auth.message, {}, table)
        ELSE Outcome(TRUE, "", {taskId},
               table \cup {[_id |-> taskId, userId |-> auth.userId,
                            title |-> args.title,
                            description |-> args.description,
                            completed |-> FALSE, createdAt |-> now]})

toggle_SetsCompleted(identity, id, table) ==
    LET auth == getAuthUserId(identity)
        found == Get(table, id)
        task == CHOOSE t \in found : TRUE
    IN  IF ~auth.ok THEN Outcome(FALSE, auth.message, {}, table)
        ELSE IF found = {} THEN Outcome(FALSE, "Task not found", {}, table)
        ELSE IF task.userId # auth.userId
        THEN Outcome(FALSE, "Unauthorized", {}, table)
        ELSE Outcome(TRUE, "", {},
               (table \ {task}) \cup {[task EXCEPT !.completed = TRUE]})

toggle(identity, id, table) ==
    LET auth == getAuthUserId(identity)
        found == Get(table, id)
        task == CHOOSE t \in found : TRUE
    IN  IF ~auth.ok THEN Outcome(FALSE, auth.message, {}, table)
        ELSE IF found = {} THEN Outcome(FALSE, "Task not found", {}, table)
        ELSE IF task.userId # auth.userId
        THEN Outcome(FALSE, "Unauthorized", {}, table)
        ELSE Outcome(TRUE, "", {},
               (table \ {task}) \cup {[task EXCEPT !.completed = ~task.completed]})

remove_NoOwnerCheck(identity, id, table) ==
    LET auth == getAuthUserId(identity)
        found == Get(table, id)
        task == CHOOSE t \in found : TRUE
    IN  IF ~auth.ok THEN Outcome(FALSE, auth.message, {}, table)
        ELSE IF found = {} THEN Outcome(FALSE, "Task not found", {}, table)
        ELSE Outcome(TRUE, "", {}, table \ {task})

remove(identity, id, table) ==
    LET auth == getAuthUserId(identity)
        found == Get(table, id)
        task == CHOOSE t \in found : TRUE
    IN  IF ~auth.ok THEN Outcome(FALSE, auth.message, {}, table)
        ELSE IF found = {} THEN Outcome(FALSE, "Task not found", {}, table)
        ELSE IF task.userId # auth.userId
        THEN Outcome(FALSE, "Unauthorized", {}, table)
        ELSE Outcome(TRUE, "", {}, table \ {task})

\* the id ctx.db.insert gives the next document, and Date.now()
NextTaskId == Cardinality(createdBy) + 1

Now == Cardinality(createdBy)

NoCall ==
    [fn |-> "none", caller |-> Anonymous, id |-> 0, ok |-> TRUE,
     message |-> "", value |-> {}, tasksBefore |-> {}]

NoToggles == [id |-> 0, count |-> 0, before |-> {}]

\* an empty table that nobody has called yet
TasksParked ==
    /\ tasks = {}
    /\ lastCall = NoCall
    /\ createdBy = {}
    /\ removedIds = {}
    /\ twice = NoToggles

----------------------------------------------------------------------------
(* The email code flow of SignInForm *)

OtpEmails == {"you@example.com", "other@example.com", "third@example.com"}

OtpCodes == {"12345678", "00000000", "1234"}

\* handleEmailSubmit before the await
handleEmailSubmit(f, email) ==
    [f EXCEPT !.error = "",
              !.isSubmitting = TRUE,
              !.pending = Pending("send-otp", [email |-> email])]

emailSignInSettled_StepFirst(f, outcome) ==
    [f EXCEPT
       !.step = [name |-> "code", email |-> f.pending.params.email],
       !.error = IF outcome = "resolved" THEN f.error
                 ELSE "Failed to send verification code. Please try again.",
       !.isSubmitting = FALSE,
       !.pending = NoPending]

\* handleEmailSubmit after the await: setStep, or catch, then finally
emailSignInSettled(f, outcome) ==
    [f EXCEPT
       !.step = IF outcome = "resolved"
                THEN [name |-> "code", email |-> f.pending.params.email]
                ELSE f.step,
       !.error = IF outcome = "resolved" THEN f.error
                 ELSE "Failed to send verification code. Please try again.",
       !.isSubmitting = FALSE,
       !.pending = NoPending]

\* handleCodeSubmit before the await; the hidden input carries step.email
handleCodeSubmit(f, code) ==
    [f EXCEPT !.error = "",
              !.isSubmitting = TRUE,
              !.pending = Pending("verify-otp",
                                  [email |-> f.step.email, code |-> code])]

\* handleCodeSubmit after the await: nothing, or catch
codeSignInSettled(f, outcome) ==
    [f EXCEPT
       !.error = IF outcome = "resolved" THEN f.error
                 ELSE "Invalid or expired code. Please try again.",
       !.isSubmitting = IF outcome = "resolved" THEN f.isSubmitting
                        ELSE FALSE,
       !.pending = NoPending]

\* the form as mounted, nothing typed
OtpParked ==
    /\ otpInputs = [email |-> "", code |-> ""]
    /\ otpLast = [action |-> "mount", outcome |-> "none",
                  before |-> InitialForm(NoViteEnv)]

----------------------------------------------------------------------------
(* isDialogOpen *)

\* snapshot.value as XState reports it: the string "closed", or the object
\* { open: <child> } for the leaves of the compound state open
StateValue(v) ==
    CASE v = "open.idle" -> [kind |-> "object", open |-> "idle"]
      [] v = "open.deleting" -> [kind |-> "object", open |-> "deleting"]
      [] v = "open.error" -> [kind |-> "object", open |-> "error"]
      [] OTHER -> [kind |-> "string", name |-> v]

\* snapshot.matches({ open: child })
matches(sv, child) ==
    /\ sv.kind = "object"
    /\ "open" \in DOMAIN sv
    /\ sv.open = child

isDialogOpen_NoError(state) ==
    IF state.hasMatches
    THEN \/ matches(state.value, "idle")
         \/ matches(state.value, "deleting")
    ELSE state.value.kind = "object" /\ "open" \in DOMAIN state.value

\* state is a snapshot (it has matches) or a raw { value } object
isDialogOpen(state) ==
    IF state.hasMatches
    THEN \/ matches(state.value, "idle")
         \/ matches(state.value, "deleting")
         \/ matches(state.value, "error")
    ELSE state.value.kind = "object" /\ "open" \in DOMAIN state.value

\* the open prop of the AlertDialog, derived from the machine snapshot
DialogShown == isDialogOpen([hasMatches |-> TRUE, value |-> StateValue(value)])

----------------------------------------------------------------------------
(* One macrostep *)

Snapshot ==
    [value |-> value, context |-> context, children |-> children,
     calls |-> Len(deleteFnCalls)]

DialogInit ==
    /\ value = initial
    /\ context = initialContext
    /\ children = {}
    /\ deleteFnCalls = <<>>
    /\ lastEvent = InitEvent
    /\ prev = [value |-> initial, context |-> initialContext,
               children |-> {}, calls |-> 0]
    /\ session = [opened |-> InitEvent, calls |-> 0, fails |-> 0,
                  closedFrom |-> Null]

Macrostep(event) ==
    LET enabled == Enabled(value, event.type)
        taken == enabled # {}
        t == CHOOSE x \in enabled : TRUE
        ctx2 == IF taken THEN Apply(t.actions, context, event) ELSE context
        target == IF taken THEN t.target ELSE value
        starts == taken /\ target \in InvokingStates
        input == InvokeInput(ctx2)
    IN  /\ starts => Len(deleteFnCalls) < MaxCalls
        /\ value' = target
        /\ context' = ctx2
        /\ children' = IF starts THEN {[id |-> "deleteItem", input |-> input]}
                       ELSE IF taken THEN {}
                       ELSE children
        /\ deleteFnCalls' = IF starts THEN Append(deleteFnCalls, input.itemId)
                            ELSE deleteFnCalls
        /\ lastEvent' = event
        /\ prev' = Snapshot
        /\ UNCHANGED outsideDialog
        /\ session' =
             IF taken /\ event.type = "OPEN"
             THEN [opened |-> event, calls |-> 0, fails |-> 0,
                   closedFrom |-> session.closedFrom]
             ELSE [opened |-> session.opened,
                   calls |-> session.calls + (IF starts THEN 1 ELSE 0),
                   fails |-> session.fails +
                     (IF taken /\ event.type = "xstate.error.actor.deleteItem"
                      THEN 1 ELSE 0),
                   closedFrom |-> IF taken /\ target = "closed" THEN value
                                  ELSE session.closedFrom]

Open == \E id \in ItemIds, title \in ItemTitles : Macrostep(OpenEvent(id, title))

Close == Macrostep(CloseEvent)

Confirm == Macrostep(ConfirmEvent)

Retry == Macrostep(RetryEvent)

\* the promise of the running deleteItem actor resolves
DeleteDone ==
    /\ children # {}
    /\ Macrostep(DoneEvent)

\* the promise of the running deleteItem actor rejects
DeleteError ==
    /\ children # {}
    /\ \E r \in Rejections : Macrostep(ErrorEvent(r))

Next == Open \/ Close \/ Confirm \/ Retry \/ DeleteDone \/ DeleteError

Init == DialogInit /\ AuthParked /\ GuardParked /\ TasksParked /\ OtpParked

Spec == Init /\ [][Next]_vars

----------------------------------------------------------------------------
(* Dev password sign-in: the steps *)

DevPasswordButtonEnabled ==
    /\ devPasswordEnabled(viteEnv)
    /\ form.step.name = "email"
    /\ ~form.isDevSubmitting

\* onChange of the dev-email input
SetDevEmail ==
    /\ DevPasswordButtonEnabled
    /\ \E e \in EmailInputs : form' = [form EXCEPT !.devEmail = e]
    /\ UNCHANGED <<backendEnv, viteEnv, authAccounts, signInResult>>
    /\ UNCHANGED outsideAuth

\* onChange of the dev-password input
SetDevPassword ==
    /\ DevPasswordButtonEnabled
    /\ \E pw \in PasswordInputs : form' = [form EXCEPT !.devPassword = pw]
    /\ UNCHANGED <<backendEnv, viteEnv, authAccounts, signInResult>>
    /\ UNCHANGED outsideAuth

\* handleDevPasswordSignIn up to its await
handleDevPasswordSignIn ==
    /\ DevPasswordButtonEnabled
    /\ form' =
         IF form.devEmail = <<>> \/ form.devPassword = ""
         THEN [form EXCEPT !.devError = "Email and password are required.",
                           !.isDevSubmitting = FALSE]
         ELSE [form EXCEPT !.devError = "",
                           !.isDevSubmitting = TRUE,
                           !.pending = Pending("dev-password",
                              [email |-> Str(form.devEmail),
                               password |-> Str(form.devPassword)])]
    /\ UNCHANGED <<backendEnv, viteEnv, authAccounts, signInResult>>
    /\ UNCHANGED outsideAuth

\* the backend answers the pending dev-password signIn; catch and finally
DevPasswordSignInSettles ==
    /\ form.pending.kind = "dev-password"
    /\ \E throwsOnExisting \in BOOLEAN :
         LET r == signIn(backendEnv, devProviderId, form.pending.params,
                         authAccounts, throwsOnExisting)
         IN  /\ authAccounts' = r.accounts
             /\ signInResult' =
                  [via |-> "form", credentials |-> form.pending.params,
                   kind |-> r.kind, message |-> r.message,
                   userId |-> r.userId, accountsBefore |-> authAccounts]
             /\ form' =
                  [form EXCEPT
                     !.devError =
                        IF r.kind = "throw"
                        THEN "Dev password sign-in failed. Check email/password."
                        ELSE form.devError,
                     !.isDevSubmitting = FALSE,
                     !.pending = NoPending]
    /\ UNCHANGED <<backendEnv, viteEnv>>
    /\ UNCHANGED outsideAuth

\* any client calls the backend signIn for dev-password with any credentials
DirectSignIn ==
    /\ \E c \in Credentials, throwsOnExisting \in BOOLEAN :
         LET r == signIn(backendEnv, devProviderId, c, authAccounts,
                         throwsOnExisting)
         IN  /\ authAccounts' = r.accounts
             /\ signInResult' =
                  [via |-> "api", credentials |-> c,
                   kind |-> r.kind, message |-> r.message,
                   userId |-> r.userId, accountsBefore |-> authAccounts]
    /\ UNCHANGED <<backendEnv, viteEnv, form>>
    /\ UNCHANGED outsideAuth

AuthInit ==
    /\ backendEnv \in BackendEnvs
    /\ viteEnv \in ViteEnvs
    /\ form = InitialForm(viteEnv)
    /\ authAccounts = InitialAccounts
    /\ signInResult = NoSignIn

NextAuth ==
    \/ SetDevEmail
    \/ SetDevPassword
    \/ handleDevPasswordSignIn
    \/ DevPasswordSignInSettles
    \/ DirectSignIn

InitAuth ==
    /\ AuthInit
    /\ DialogInit
    /\ GuardParked
    /\ TasksParked
    /\ OtpParked

SpecAuth == InitAuth /\ [][NextAuth]_vars

----------------------------------------------------------------------------
(* AuthGuard: the steps *)

\* a render of the mounted AuthGuard with its effect, committed
Commit(l, a, path, ref) ==
    LET out == AuthGuardRender(l, a)
        logged == Logged(RenderBreadcrumbs(out) \o EffectBreadcrumbs(ref, l, a))
    IN  /\ breadcrumbs' = logged
        /\ guard' = [mounted |-> out # "navigate",
                     prevState |-> [set |-> TRUE, loading |-> l,
                                    isAuthenticated |-> a],
                     rendered |-> [output |-> out, loading |-> l,
                                   isAuthenticated |-> a]]
        /\ location' = IF out = "navigate" THEN "/auth" ELSE path

\* useConvexAuth reports a new state
AuthStateChanges ==
    /\ \E l \in BOOLEAN, a \in BOOLEAN :
         /\ <<l, a>> # <<convexAuth.isLoading, convexAuth.isAuthenticated>>
         /\ convexAuth' = [isLoading |-> l, isAuthenticated |-> a]
         /\ IF guard.mounted
            THEN Commit(l, a, location, guard.prevState)
            ELSE UNCHANGED <<location, guard, breadcrumbs>>
    /\ UNCHANGED outsideGuard

\* the user goes to a protected route: AuthGuard re-renders, or mounts
VisitProtected ==
    /\ \E path \in ProtectedPaths :
         Commit(convexAuth.isLoading, convexAuth.isAuthenticated, path,
                IF guard.mounted THEN guard.prevState ELSE NoPrevState)
    /\ UNCHANGED convexAuth
    /\ UNCHANGED outsideGuard

\* the user goes to the sign-in page: AuthGuard unmounts
VisitAuthPage ==
    /\ location # "/auth"
    /\ location' = "/auth"
    /\ guard' = [guard EXCEPT !.mounted = FALSE]
    /\ UNCHANGED <<convexAuth, breadcrumbs>>
    /\ UNCHANGED outsideGuard

GuardInit ==
    /\ convexAuth \in [isLoading : BOOLEAN, isAuthenticated : BOOLEAN]
    /\ location = "/auth"
    /\ guard = NotMounted
    /\ breadcrumbs = <<>>

NextGuard == AuthStateChanges \/ VisitProtected \/ VisitAuthPage

InitGuard ==
    /\ GuardInit
    /\ DialogInit
    /\ AuthParked
    /\ TasksParked
    /\ OtpParked

SpecGuard == InitGuard /\ [][NextGuard]_vars

----------------------------------------------------------------------------
(* Tasks: the calls *)

\* a query or mutation has run: record it, and apply what it did
Called(fn, caller, id, r) ==
    /\ tasks' = r.tasks
    /\ lastCall' = [fn |-> fn, caller |-> caller, id |-> id, ok |-> r.ok,
                    message |-> r.message, value |-> r.value,
                    tasksBefore |-> tasks]
    /\ removedIds' = IF fn = "remove" /\ r.ok THEN removedIds \cup {id} ELSE removedIds
    /\ twice' =
         IF fn = "toggle" /\ r.ok
         THEN IF twice.id = id /\ twice.count = 1
              THEN [twice EXCEPT !.count = 2]
              ELSE [id |-> id, count |-> 1, before |-> tasks]
         ELSE IF r.tasks = tasks THEN twice
         ELSE NoToggles
    /\ UNCHANGED outsideTasks

List ==
    \E caller \in Identities :
        /\ Called("list", caller, 0, list(caller, tasks))
        /\ UNCHANGED createdBy

Create ==
    \E caller \in Identities, args \in CreateArgs :
        LET r == create(caller, args, tasks, NextTaskId, Now)
        IN  /\ NextTaskId <= MaxTasks
            /\ Called("create", caller, NextTaskId, r)
            /\ createdBy' = IF r.ok
                          THEN createdBy \cup {[id |-> NextTaskId, by |-> caller.user]}
                          ELSE createdBy

Toggle ==
    \E caller \in Identities, id \in 1..MaxTasks :
        /\ Called("toggle", caller, id, toggle(caller, id, tasks))
        /\ UNCHANGED createdBy

Remove ==
    \E caller \in Identities, id \in 1..MaxTasks :
        /\ Called("remove", caller, id, remove(caller, id, tasks))
        /\ UNCHANGED createdBy

TasksInit == TasksParked

NextTasks == List \/ Create \/ Toggle \/ Remove

InitTasks ==
    /\ TasksInit
    /\ DialogInit
    /\ AuthParked
    /\ GuardParked
    /\ OtpParked

SpecTasks == InitTasks /\ [][NextTasks]_vars

----------------------------------------------------------------------------
(* The email code flow: the steps *)

OtpStep(action, outcome, f) ==
    /\ form' = f
    /\ otpLast' = [action |-> action, outcome |-> outcome, before |-> form]
    /\ UNCHANGED outsideOtp

\* the user types in the email input
TypeEmail ==
    /\ form.step.name = "email"
    /\ ~form.isSubmitting
    /\ \E e \in OtpEmails \cup {""} : otpInputs' = [otpInputs EXCEPT !.email = e]
    /\ OtpStep("type", "none", form)

\* the user types in the code input
TypeCode ==
    /\ form.step.name = "code"
    /\ ~form.isSubmitting
    /\ \E c \in OtpCodes \cup {""} : otpInputs' = [otpInputs EXCEPT !.code = c]
    /\ OtpStep("type", "none", form)

\* the email form is submitted: handleEmailSubmit up to its await
SubmitEmail ==
    /\ form.step.name = "email"
    /\ ~form.isSubmitting
    /\ otpInputs.email # ""
    /\ OtpStep("handleEmailSubmit", "none",
               handleEmailSubmit(form, otpInputs.email))
    /\ UNCHANGED otpInputs

\* the signIn that sends the code resolves or rejects
SendCodeSettles ==
    /\ form.pending.kind = "send-otp"
    /\ \E outcome \in {"resolved", "rejected"} :
         LET f == emailSignInSettled(form, outcome)
         IN  /\ OtpStep("send-otp", outcome, f)
             /\ otpInputs' = IF f.step.name = "code"
                             THEN [email |-> "", code |-> ""]
                             ELSE otpInputs

\* the code form is submitted: handleCodeSubmit up to its await
SubmitCode ==
    /\ form.step.name = "code"
    /\ ~form.isSubmitting
    /\ otpInputs.code # ""
    /\ OtpStep("handleCodeSubmit", "none",
               handleCodeSubmit(form, otpInputs.code))
    /\ UNCHANGED otpInputs

\* the signIn that verifies the code resolves or rejects
VerifyCodeSettles ==
    /\ form.pending.kind = "verify-otp"
    /\ \E outcome \in {"resolved", "rejected"} :
         OtpStep("verify-otp", outcome, codeSignInSettled(form, outcome))
    /\ UNCHANGED otpInputs

\* the "Use a different email" button
useDifferentEmail ==
    /\ form.step.name = "code"
    /\ ~form.isSubmitting
    /\ OtpStep("useDifferentEmail", "none",
               [form EXCEPT !.step = [name |-> "email", email |-> ""],
                            !.error = ""])
    /\ otpInputs' = [email |-> "", code |-> ""]

\* after a sign-in and a later sign-out the form mounts afresh
FormRemounts ==
    /\ otpLast.action = "verify-otp"
    /\ otpLast.outcome = "resolved"
    /\ OtpStep("mount", "none", InitialForm(viteEnv))
    /\ otpInputs' = [email |-> "", code |-> ""]

NextOtp ==
    \/ TypeEmail
    \/ TypeCode
    \/ SubmitEmail
    \/ SendCodeSettles
    \/ SubmitCode
    \/ VerifyCodeSettles
    \/ useDifferentEmail
    \/ FormRemounts

\* SignInForm mounts under any frontend configuration
OtpInit ==
    /\ backendEnv = NoEnv
    /\ viteEnv \in ViteEnvs
    /\ form = InitialForm(viteEnv)
    /\ authAccounts = InitialAccounts
    /\ signInResult = NoSignIn
    /\ otpInputs = [email |-> "", code |-> ""]
    /\ otpLast = [action |-> "mount", outcome |-> "none", before |-> form]

InitOtp ==
    /\ OtpInit
    /\ DialogInit
    /\ GuardParked
    /\ TasksParked

SpecOtp == InitOtp /\ [][NextOtp]_vars

----------------------------------------------------------------------------
(* Properties *)

AllNull == [itemId |-> Null, itemTitle |-> Null, error |-> Null]

DoneType == "xstate.done.actor.deleteItem"

ErrorType == "xstate.error.actor.deleteItem"

TheActor(id) == {[id |-> "deleteItem", input |-> [itemId |-> id]]}

C1_Allowed ==
    { <<"closed", "OPEN", "open.idle">>,
      <<"open.idle", "CLOSE", "closed">>,
      <<"open.idle", "CONFIRM", "open.deleting">>,
      <<"open.deleting", DoneType, "closed">>,
      <<"open.deleting", ErrorType, "open.error">>,
      <<"open.error", "RETRY", "open.deleting">>,
      <<"open.error", "CLOSE", "closed">> }

\* C1: the machine is always in one of the four leaf states closed,
\* open.idle, open.deleting, open.error, and every change of state is one of
\* the seven listed changes, caused by the listed event.
C1_OnlyListedTransitions ==
    /\ value \in {"closed", "open.idle", "open.deleting", "open.error"}
    /\ value # prev.value =>
         <<prev.value, lastEvent.type, value>> \in C1_Allowed

\* all four states have been visited: closed, idle, deleting, error, and
\* deleting again through RETRY
C1_Witness ==
    /\ lastEvent.type = "RETRY"
    /\ prev.value = "open.error"
    /\ value = "open.deleting"

\* C2: CONFIRM in open.idle moves to open.deleting and starts the deleteItem
\* actor with the itemId of the OPEN event that opened the dialog.
C2_ConfirmStartsDelete ==
    (lastEvent.type = "CONFIRM" /\ prev.value = "open.idle") =>
        /\ value = "open.deleting"
        /\ children = TheActor(session.opened.itemId)
        /\ Len(deleteFnCalls) = prev.calls + 1
        /\ deleteFnCalls[Len(deleteFnCalls)] = session.opened.itemId

C2_Witness ==
    /\ lastEvent.type = "CONFIRM"
    /\ prev.value = "open.idle"
    /\ session.opened.type = "OPEN"
    /\ session.opened.itemId = "specific-task-456"
    /\ Len(deleteFnCalls) > 1
    /\ deleteFnCalls[1] = "task123"

\* C3: when the delete call resolves the machine is closed with itemId,
\* itemTitle and error null; open.deleting is left for closed only when the
\* delete call resolved.
C3_DoneCloses ==
    /\ lastEvent.type = DoneType =>
         /\ prev.value = "open.deleting"
         /\ value = "closed"
         /\ context = AllNull
    /\ (prev.value = "open.deleting" /\ value = "closed") =>
         lastEvent.type = DoneType

C3_Witness ==
    /\ lastEvent.type = DoneType
    /\ prev.value = "open.deleting"
    /\ prev.context.itemId # Null
    /\ value = "closed"

\* C4: when the delete call rejects the machine is in open.error, error holds
\* the failure's message, and itemId and itemTitle are unchanged.
C4_ErrorKeepsItem ==
    lastEvent.type = ErrorType =>
        /\ prev.value = "open.deleting"
        /\ value = "open.error"
        /\ context.itemId = prev.context.itemId
        /\ context.itemTitle = prev.context.itemTitle
        /\ context.itemId # Null
        /\ context.error # Null
        /\ lastEvent.error.kind = "Error" =>
             context.error = lastEvent.error.payload

C4_Witness ==
    /\ lastEvent.type = ErrorType
    /\ lastEvent.error.kind = "Error"
    /\ value = "open.error"
    /\ context.error = "Network error"
    /\ context.itemId = "task123"

\* C5: RETRY in open.error moves back to open.deleting and calls delete again
\* with the itemId of the failed attempt; when a session ends with a
\* successful delete after n failures the delete function was called n+1
\* times in it and the machine is closed.
C5_RetryCallsAgain ==
    /\ (lastEvent.type = "RETRY" /\ prev.value = "open.error") =>
         /\ value = "open.deleting"
         /\ Len(deleteFnCalls) = prev.calls + 1
         /\ prev.calls >= 1
         /\ deleteFnCalls[Len(deleteFnCalls)] = deleteFnCalls[prev.calls]
         /\ children = TheActor(deleteFnCalls[prev.calls])
    /\ lastEvent.type = DoneType =>
         /\ value = "closed"
         /\ session.calls = session.fails + 1

\* two failures, each followed by RETRY, then a success
C5_Witness ==
    /\ lastEvent.type = DoneType
    /\ session.fails = 2
    /\ session.calls = 3
    /\ value = "closed"

\* C6: CLOSE in open.idle or open.error moves to closed, resets itemId,
\* itemTitle and error to null, and starts no delete call.
C6_CloseResets ==
    (lastEvent.type = "CLOSE" /\ prev.value \in {"open.idle", "open.error"}) =>
        /\ value = "closed"
        /\ context = AllNull
        /\ children = {}
        /\ Len(deleteFnCalls) = prev.calls

C6_Witness ==
    /\ lastEvent.type = "CLOSE"
    /\ prev.value = "open.error"
    /\ prev.context.error # Null
    /\ value = "closed"

\* C7: OPEN in closed moves to open.idle with itemId and itemTitle of the
\* event and error null, whatever the earlier sessions did.
C7_OpenSetsItem ==
    (lastEvent.type = "OPEN" /\ prev.value = "closed") =>
        /\ value = "open.idle"
        /\ context = [itemId |-> lastEvent.itemId,
                      itemTitle |-> lastEvent.itemTitle,
                      error |-> Null]
        /\ children = {}

\* reopened after a session that was closed from open.error
C7_Witness ==
    /\ lastEvent.type = "OPEN"
    /\ prev.value = "closed"
    /\ session.closedFrom = "open.error"
    /\ value = "open.idle"

\* C8: the machine starts in closed with itemId, itemTitle and error null.
C8_StartsClosed ==
    lastEvent.type = "xstate.init" =>
        /\ value = "closed"
        /\ context = AllNull
        /\ children = {}

C8_Witness ==
    /\ lastEvent.type = "xstate.init"
    /\ deleteFnCalls = <<>>

\* C9: CONFIRM outside open.idle and RETRY outside open.error are ignored:
\* state, context and running actor are unchanged and no delete call starts.
C9_GuardsIgnore ==
    /\ (lastEvent.type = "CONFIRM" /\ prev.value # "open.idle") =>
         Snapshot = prev
    /\ (lastEvent.type = "RETRY" /\ prev.value # "open.error") =>
         Snapshot = prev

\* CONFIRM again while the delete call is running
C9_Witness ==
    /\ lastEvent.type = "CONFIRM"
    /\ prev.value = "open.deleting"
    /\ value = "open.deleting"

\* C10: CLOSE while closed does nothing: the state stays closed and the
\* context stays all null.
C10_CloseWhenClosed ==
    (lastEvent.type = "CLOSE" /\ prev.value = "closed") =>
        /\ value = "closed"
        /\ prev.context = AllNull
        /\ context = AllNull
        /\ Snapshot = prev

C10_Witness ==
    /\ lastEvent.type = "CLOSE"
    /\ prev.value = "closed"
    /\ Len(deleteFnCalls) > 0

\* C11: isDialogOpen is true exactly in open.idle, open.deleting and
\* open.error and false in closed, for a snapshot and for a raw value alike,
\* so the dialog is shown iff the machine is not closed.
C11_DialogOpenIffNotClosed ==
    /\ DialogShown = (value \in {"open.idle", "open.deleting", "open.error"})
    /\ DialogShown = (value # "closed")
    /\ isDialogOpen([hasMatches |-> FALSE, value |-> StateValue(value)])
         = (value # "closed")

C11_Witness ==
    /\ value = "open.error"
    /\ DialogShown
    /\ lastEvent.type = ErrorType

\* C12: after a failed delete the stored error is the Error's message, the
\* rejected string itself, or "An unknown error occurred" for any other
\* rejection value, and it is never null.
C12_ErrorText ==
    lastEvent.type = ErrorType =>
        /\ context.error # Null
        /\ lastEvent.error.kind = "Error" =>
             context.error = lastEvent.error.payload
        /\ lastEvent.error.kind = "string" =>
             context.error = lastEvent.error.payload
        /\ lastEvent.error.kind \notin {"Error", "string"} =>
             context.error = "An unknown error occurred"

C12_Witness ==
    /\ lastEvent.type = ErrorType
    /\ lastEvent.error.kind = "string"
    /\ context.error = "Task not found"
    /\ value = "open.error"

\* C13: at most one delete call is in flight, one is in flight exactly while
\* the state is open.deleting, and the delete function is called once per
\* entry into open.deleting and at no other time.
C13_SingleCall ==
    /\ Cardinality(children) <= 1
    /\ (children # {}) = (value = "open.deleting")
    /\ (value = "open.deleting" /\ prev.value # "open.deleting") =>
         /\ Len(deleteFnCalls) = prev.calls + 1
         /\ prev.children = {}
    /\ ~(value = "open.deleting" /\ prev.value # "open.deleting") =>
         Len(deleteFnCalls) = prev.calls

\* a second call has started after the first one failed and was retried
C13_Witness ==
    /\ value = "open.deleting"
    /\ prev.value = "open.error"
    /\ Cardinality(children) = 1
    /\ Len(deleteFnCalls) = 2

ConfiguredPair(c) ==
    /\ c.email.kind = "string"
    /\ c.password.kind = "string"
    /\ trim(toLowerCase(c.email.v)) = devPasswordEmail(backendEnv)
    /\ c.password.v = devPasswordSecret(backendEnv)

NoOverrides ==
    /\ ~backendEnv.DEV_PASSWORD_AUTH_EMAIL.defined
    /\ ~backendEnv.DEV_PASSWORD_AUTH_PASSWORD.defined
    /\ ~viteEnv.VITE_DEV_PASSWORD_AUTH_EMAIL.defined
    /\ ~viteEnv.VITE_DEV_PASSWORD_AUTH_PASSWORD.defined

\* C14: with dev password auth enabled on frontend and backend and no
\* credential override set, a sign-in from the form with the pre-filled
\* default credentials test@example.local / TestUser2026#Secure! is accepted
\* by authorize.
C14_DefaultsAccepted ==
    ( /\ signInResult.via = "form"
      /\ devPasswordEnabled(viteEnv)
      /\ backendEnv.ENABLE_DEV_PASSWORD_AUTH = SetTo("true")
      /\ NoOverrides
      /\ signInResult.credentials.email = Str(FrontendDefaultEmail)
      /\ signInResult.credentials.password = Str(DefaultPassword) )
    => signInResult.kind = "user"

\* C15: the dev-password provider exists only when ENABLE_DEV_PASSWORD_AUTH
\* is exactly "true", otherwise resend-otp is the only provider; when it
\* exists authorize returns null for a non-string email or password, throws
\* "Invalid credentials" unless the lower-cased trimmed email and the
\* password equal the configured pair, and otherwise returns the user id of
\* the created or already existing account.
C15_DevProvider ==
    LET enabled == backendEnv.ENABLE_DEV_PASSWORD_AUTH = SetTo("true")
        c == signInResult.credentials
        id == trim(toLowerCase(c.email.v))
        before == FindAccount(signInResult.accountsBefore, "dev-password", id)
        after == FindAccount(authAccounts, "dev-password", id)
    IN  /\ providers(backendEnv) =
             IF enabled THEN {"resend-otp", "dev-password"}
             ELSE {"resend-otp"}
        /\ (signInResult.via # "none" /\ ~enabled) =>
             /\ signInResult.kind = "throw"
             /\ authAccounts = signInResult.accountsBefore
        /\ (signInResult.via # "none" /\ enabled) =>
             /\ (c.email.kind # "string" \/ c.password.kind # "string") =>
                  signInResult.kind = "null"
             /\ (c.email.kind = "string" /\ c.password.kind = "string"
                 /\ ~ConfiguredPair(c)) =>
                  /\ signInResult.kind = "throw"
                  /\ signInResult.message = "Invalid credentials"
             /\ signInResult.kind # "user" =>
                  authAccounts = signInResult.accountsBefore
             /\ ConfiguredPair(c) =>
                  /\ signInResult.kind = "user"
                  /\ \E a \in after : a.userId = signInResult.userId
                  /\ before # {} =>
                       /\ authAccounts = signInResult.accountsBefore
                       /\ \E a \in before : a.userId = signInResult.userId
                  /\ before = {} =>
                       /\ Cardinality(authAccounts) =
                            Cardinality(signInResult.accountsBefore) + 1
                       /\ \A a \in signInResult.accountsBefore :
                            a.userId # signInResult.userId

\* the padded, upper-cased default email signs in to the account that an
\* earlier sign-in created
C15_Witness ==
    /\ backendEnv.ENABLE_DEV_PASSWORD_AUTH = SetTo("true")
    /\ signInResult.via = "form"
    /\ signInResult.credentials.email = Str(PaddedEmail)
    /\ signInResult.kind = "user"
    /\ FindAccount(signInResult.accountsBefore, "dev-password",
                   BackendDefaultEmail) # {}

\* C16: AuthGuard renders its children iff isAuthenticated (whatever loading
\* is), the spinner iff not authenticated and loading, the redirect to /auth
\* iff not authenticated and not loading; while it is mounted its output is
\* that of the current auth state, so children are never shown while
\* isAuthenticated is false.
C16_GuardProtects ==
    LET r == guard.rendered
    IN  /\ r.output # "none" =>
             /\ (r.output = "children") = r.isAuthenticated
             /\ (r.output = "spinner") = (~r.isAuthenticated /\ r.loading)
             /\ (r.output = "navigate") = (~r.isAuthenticated /\ ~r.loading)
        /\ guard.mounted =>
             /\ r.loading = convexAuth.isLoading
             /\ r.isAuthenticated = convexAuth.isAuthenticated
             /\ r.output = "children" => convexAuth.isAuthenticated
             /\ location \in ProtectedPaths
        /\ r.output = "navigate" => ~guard.mounted

\* authenticated and loading at once: the children stay on screen
C16_Witness ==
    /\ guard.mounted
    /\ convexAuth.isLoading
    /\ convexAuth.isAuthenticated
    /\ guard.rendered.output = "children"
    /\ guard.prevState.set

\* C17: toggle and remove change the tasks table only when the caller is
\* authenticated, the task exists and it belongs to the caller; an
\* unauthenticated caller, a missing task ("Task not found") and another
\* user's task ("Unauthorized") make the call throw and leave the table
\* unchanged.
C17_OwnershipCheck ==
    LET found == Get(lastCall.tasksBefore, lastCall.id)
        authenticated == lastCall.caller.present
        owns == /\ found # {}
                /\ \A t \in found : t.userId = lastCall.caller.user
    IN  lastCall.fn \in {"toggle", "remove"} =>
          /\ tasks # lastCall.tasksBefore => (authenticated /\ owns)
          /\ ~authenticated =>
               /\ ~lastCall.ok
               /\ tasks = lastCall.tasksBefore
          /\ (authenticated /\ found = {}) =>
               /\ ~lastCall.ok
               /\ lastCall.message = "Task not found"
               /\ tasks = lastCall.tasksBefore
          /\ (authenticated /\ found # {} /\ ~owns) =>
               /\ ~lastCall.ok
               /\ lastCall.message = "Unauthorized"
               /\ tasks = lastCall.tasksBefore
          /\ (authenticated /\ owns) =>
               /\ lastCall.ok
               /\ tasks # lastCall.tasksBefore

\* a signed-in user tries to remove another user's task
C17_Witness ==
    /\ lastCall.fn = "remove"
    /\ lastCall.caller.present
    /\ lastCall.message = "Unauthorized"
    /\ Get(tasks, lastCall.id) # {}

\* C18: list returns exactly the caller's tasks: none that another user
\* created, and every task the caller created and did not remove; an
\* unauthenticated caller gets an error.
C18_ListIsOwnTasks ==
    lastCall.fn = "list" =>
      /\ ~lastCall.caller.present => ~lastCall.ok
      /\ lastCall.caller.present =>
           /\ lastCall.ok
           /\ lastCall.value =
                {t \in tasks : t.userId = lastCall.caller.user}
           /\ \A t \in lastCall.value :
                [id |-> t._id, by |-> lastCall.caller.user] \in createdBy
           /\ \A e \in createdBy :
                (e.by = lastCall.caller.user /\ e.id \notin removedIds) =>
                    \E t \in lastCall.value : t._id = e.id

\* a second session of user a lists its task while user b has one too
C18_Witness ==
    /\ lastCall.fn = "list"
    /\ lastCall.caller.subject = <<"a", "|", "2">>
    /\ Cardinality(lastCall.value) = 1
    /\ \E t \in tasks : t.userId = <<"b">>

\* C19: toggle by the owner negates completed of the addressed task and
\* changes nothing else in the table, so two toggles of the same task in a
\* row restore the table.
C19_ToggleNegates ==
    /\ (lastCall.fn = "toggle" /\ lastCall.ok) =>
         \E t \in lastCall.tasksBefore :
            /\ t._id = lastCall.id
            /\ tasks = (lastCall.tasksBefore \ {t}) \cup
                 {[_id |-> t._id, userId |-> t.userId, title |-> t.title,
                   description |-> t.description,
                   completed |-> ~t.completed, createdAt |-> t.createdAt]}
    /\ twice.count = 2 => tasks = twice.before

C19_Witness ==
    /\ lastCall.fn = "toggle"
    /\ lastCall.ok
    /\ twice.count = 2
    /\ Cardinality(tasks) = 2

SendFailedText == "Failed to send verification code. Please try again."

VerifyFailedText == "Invalid or expired code. Please try again."

\* C20: the form goes from the email step to the code step only when the
\* signIn that sends the code has resolved; if it rejects the form stays on
\* the email step, shows the send-failed text and isSubmitting is false
\* again; a rejected verification keeps the code step, shows the
\* invalid-code text and isSubmitting is false again.
C20_TwoStepOtp ==
    /\ (otpLast.before.step.name = "email" /\ form.step.name = "code") =>
         /\ otpLast.action = "send-otp"
         /\ otpLast.outcome = "resolved"
         /\ form.step.email = otpLast.before.pending.params.email
    /\ (otpLast.action = "send-otp" /\ otpLast.outcome = "resolved") =>
         /\ form.step.name = "code"
         /\ ~form.isSubmitting
    /\ (otpLast.action = "send-otp" /\ otpLast.outcome = "rejected") =>
         /\ form.step.name = "email"
         /\ form.error = SendFailedText
         /\ ~form.isSubmitting
    /\ (otpLast.action = "verify-otp" /\ otpLast.outcome = "rejected") =>
         /\ form.step = otpLast.before.step
         /\ form.step.name = "code"
         /\ form.error = VerifyFailedText
         /\ ~form.isSubmitting
    /\ form.pending.kind = "send-otp" =>
         (form.step.name = "email" /\ form.isSubmitting)

\* a second code is rejected for an email whose first send had failed
C20_Witness ==
    /\ otpLast.action = "verify-otp"
    /\ otpLast.outcome = "rejected"
    /\ form.step.name = "code"
    /\ form.step.email = "other@example.com"
    /\ form.error = VerifyFailedText
    /\ ~form.isSubmitting

====
